---- MODULE Spec2Model ----
(***************************************************************************)
(* BatchedEternityEnv (src/src/environment/batched_gym.py): a batch of     *)
(* edge-matching boards evolved in lockstep.  The tensor `instances` has   *)
(* shape [batch_size, 4, size, size]; every index below is zero-based as   *)
(* in the source.                                                          *)
(***************************************************************************)
EXTENDS Integers, Sequences, FiniteSets, TLC

VARIABLES
    instances,   \* self.instances : [b][c][h][w] -> label
    size,        \* self.size
    batch_size,  \* self.batch_size
    n_class,     \* self.n_class
    rng,         \* self.rng : state of the generator
    step_id,     \* self.step_id
    truncated,   \* self.truncated
    terminated,  \* self.terminated : [b] -> BOOLEAN
    call,        \* the last call made on the batch and its arguments
    ret,         \* what that call returned
    pre,         \* the fields as they were when that call started
    twin,        \* a second batch, constructed alike and given the same calls
    episode      \* the caller's account of the rewards since the last reset

vars == <<instances, size, batch_size, n_class, rng, step_id, truncated,
          terminated, call, ret, pre, twin, episode>>

-----------------------------------------------------------------------------
(* Side channels (from .gym import EAST, NORTH, SOUTH, WEST).              *)
NORTH == 0
EAST == 1
SOUTH == 2
WEST == 3

\* The channel dimension asserted by the constructor (shape[1] == 4).
N_SIDES == 4

Chan == 0 .. (N_SIDES - 1)

-----------------------------------------------------------------------------
(* Tensor plumbing.                                                        *)

\* x.shape[0] and x.shape[-1] of a [b][c][h][w] tensor.
Shape0(x) == Cardinality(DOMAIN x)
ShapeLast(x) == Cardinality(DOMAIN x[0][0][0])

\* The max over the elements of the last instance only.
TensorMaxLastInstance(x) ==
    LET last == Cardinality(DOMAIN x) - 1
        vals == { x[last][c][h][w] : c \in Chan,
                                     h \in DOMAIN x[0][0], w \in DOMAIN x[0][0][0] }
    IN  CHOOSE m \in vals : \A v \in vals : v <= m

\* torch's max over all elements.
TensorMax(x) ==
    LET vals == { x[b][c][h][w] : b \in DOMAIN x, c \in Chan,
                                  h \in DOMAIN x[0][0], w \in DOMAIN x[0][0][0] }
    IN  CHOOSE m \in vals : \A v \in vals : v <= m

\* A tensor held in memory: the value of f, computed once instead of at
\* every later element access.
Tensor(f) == IF f = f THEN f ELSE f

\* rearrange(x, "b c h w -> (b h w) c")
ToRows(x, B, S) ==
    Tensor([k \in 0 .. (B * S * S - 1) |->
        [c \in Chan |-> x[k \div (S * S)][c][(k \div S) % S][k % S]]])

\* rearrange(rows, "(b h w) c -> b c h w", b=B, h=S, w=S)
FromRows(rows, B, S) ==
    Tensor([b \in 0 .. (B - 1) |->
        [c \in Chan |->
            [h \in 0 .. (S - 1) |->
                [w \in 0 .. (S - 1) |-> rows[(b * S + h) * S + w][c]]]]])

\* torch.arange(0, B * n, n)
Offsets(B, n) == [b \in 0 .. (B - 1) |-> b * n]

\* An index as torch reads it on a dimension of length n: a negative index
\* counts from the end.
WrapIndex(i, n) == IF i < 0 THEN i + n ELSE i

\* Whether torch accepts every index of idx on a dimension of length n;
\* otherwise the indexing raises IndexError.
IndexInRange(idx, n) == \A b \in DOMAIN idx : -n <= idx[b] /\ idx[b] < n

\* vec[idx] = vals for index tensors idx, vals of the same length: element b
\* is written at idx[b]; a later b overwrites an earlier one (torch leaves
\* the result open when idx repeats an index: the callers below never do).
IndexPut(vec, idx, vals) ==
    [k \in DOMAIN vec |->
        LET hits == { b \in DOMAIN idx : idx[b] = k }
        IN  IF hits = {} THEN vec[k]
            ELSE vals[CHOOSE b \in hits : \A o \in hits : o <= b]]

\* vec[idx] for an index tensor idx (a copy).
Gather(vec, idx) == [b \in DOMAIN idx |-> vec[idx[b]]]

-----------------------------------------------------------------------------
(* batched_roll: circular shift of the last dimension, one shift per row.  *)

\* BatchedRoll without shifts = hidden_size - shifts: the labels move the
\* other way round.
BatchedRollBackward(input_tensor, shifts) ==
    LET hidden_size == N_SIDES
        sh == Tensor([b \in DOMAIN input_tensor |-> shifts[b] % hidden_size])
        extended == [b \in DOMAIN input_tensor |->
                        [j \in 0 .. (2 * hidden_size - 1) |->
                            IF j < hidden_size THEN input_tensor[b][j]
                            ELSE input_tensor[b][j - hidden_size]]]
    IN  [b \in DOMAIN input_tensor |->
            [h \in 0 .. (hidden_size - 1) |-> extended[b][sh[b] + h]]]

\* BatchedRoll with the selection window one column off.
BatchedRollOffByOne(input_tensor, shifts) ==
    LET hidden_size == N_SIDES
        sh == Tensor([b \in DOMAIN input_tensor |-> hidden_size - 1 - (shifts[b] % hidden_size)])
        extended == [b \in DOMAIN input_tensor |->
                        [j \in 0 .. (2 * hidden_size - 1) |->
                            IF j < hidden_size THEN input_tensor[b][j]
                            ELSE input_tensor[b][j - hidden_size]]]
    IN  [b \in DOMAIN input_tensor |->
            [h \in 0 .. (hidden_size - 1) |-> extended[b][sh[b] + h]]]

BatchedRoll(input_tensor, shifts) ==
    LET hidden_size == N_SIDES
        \* shifts = shifts % hidden_size ; shifts = hidden_size - shifts
        sh == Tensor([b \in DOMAIN input_tensor |-> hidden_size - (shifts[b] % hidden_size)])
        \* select_indices = shifts.unsqueeze(1) + offsets
        select_indices == [b \in DOMAIN input_tensor |->
                              [h \in 0 .. (hidden_size - 1) |-> sh[b] + h]]
        \* torch.concat((input_tensor, input_tensor), dim=1)
        extended == [b \in DOMAIN input_tensor |->
                        [j \in 0 .. (2 * hidden_size - 1) |->
                            IF j < hidden_size THEN input_tensor[b][j]
                            ELSE input_tensor[b][j - hidden_size]]]
    IN  \* torch.gather(extended, dim=1, index=select_indices)
        [b \in DOMAIN input_tensor |->
            [h \in 0 .. (hidden_size - 1) |-> extended[b][select_indices[b][h]]]]

\* RollTiles with the shift of an instance given to every tile of it.
RollTilesWholeInstance(x, B, S, tile_ids, shifts) ==
    LET n == S * S
        total_shifts == [k \in 0 .. (B * n - 1) |-> shifts[k \div n]]
    IN  FromRows(BatchedRoll(ToRows(x, B, S), total_shifts), B, S)

\* RollTiles without the per-instance offsets: every shift lands in instance 0.
RollTilesNoOffsets(x, B, S, tile_ids, shifts) ==
    LET n == S * S
        zeros == [k \in 0 .. (B * n - 1) |-> 0]
        ids == Tensor([b \in 0 .. (B - 1) |-> tile_ids[b]])
        total_shifts == IndexPut(zeros, ids, shifts)
    IN  FromRows(BatchedRoll(ToRows(x, B, S), total_shifts), B, S)

\* Whether tile_ids + offsets index the B * S * S rows of the flattened batch.
TileIdsIndexable(tile_ids, B, S) ==
    IndexInRange([b \in 0 .. (B - 1) |-> tile_ids[b] + Offsets(B, S * S)[b]], B * S * S)

\* roll_tiles(tile_ids, shifts) on the tensor x of a batch of B boards of side S,
\* for tile_ids that are indexable.
RollTiles(x, B, S, tile_ids, shifts) ==
    LET n == S * S
        zeros == [k \in 0 .. (B * n - 1) |-> 0]
        offsets == Offsets(B, n)
        ids == Tensor([b \in 0 .. (B - 1) |-> WrapIndex(tile_ids[b] + offsets[b], B * n)])
        total_shifts == IndexPut(zeros, ids, shifts)
    IN  FromRows(BatchedRoll(ToRows(x, B, S), total_shifts), B, S)

\* SwapTiles without the per-instance offsets: every swap lands in instance 0.
SwapTilesNoOffsets(x, B, S, tile_ids_1, tile_ids_2) ==
    LET ids_1 == Tensor([b \in 0 .. (B - 1) |-> tile_ids_1[b]])
        ids_2 == Tensor([b \in 0 .. (B - 1) |-> tile_ids_2[b]])
        rows == ToRows(x, B, S)
        from_2 == Tensor(Gather(rows, ids_2))
        from_1 == Tensor(Gather(rows, ids_1))
        first == IndexPut(rows, ids_1, from_2)
        second == IndexPut(first, ids_2, from_1)
    IN  FromRows(second, B, S)

\* SwapTiles with the rows put back as "(b w h) c -> b c h w": every board
\* comes out transposed.
SwapTilesTransposed(x, B, S, tile_ids_1, tile_ids_2) ==
    LET n == S * S
        offsets == Offsets(B, n)
        ids_1 == Tensor([b \in 0 .. (B - 1) |-> tile_ids_1[b] + offsets[b]])
        ids_2 == Tensor([b \in 0 .. (B - 1) |-> tile_ids_2[b] + offsets[b]])
        rows == ToRows(x, B, S)
        from_2 == Tensor(Gather(rows, ids_2))
        from_1 == Tensor(Gather(rows, ids_1))
        second == IndexPut(IndexPut(rows, ids_1, from_2), ids_2, from_1)
    IN  Tensor([b \in 0 .. (B - 1) |->
            [c \in Chan |->
                [h \in 0 .. (S - 1) |->
                    [w \in 0 .. (S - 1) |-> second[(b * S + w) * S + h][c]]]]])

\* SwapTiles with the second write reading the rows the first write changed.
SwapTilesSequential(x, B, S, tile_ids_1, tile_ids_2) ==
    LET n == S * S
        offsets == Offsets(B, n)
        ids_1 == Tensor([b \in 0 .. (B - 1) |-> tile_ids_1[b] + offsets[b]])
        ids_2 == Tensor([b \in 0 .. (B - 1) |-> tile_ids_2[b] + offsets[b]])
        rows == ToRows(x, B, S)
        first == IndexPut(rows, ids_1, Tensor(Gather(rows, ids_2)))
        second == IndexPut(first, ids_2, Tensor(Gather(first, ids_1)))
    IN  FromRows(second, B, S)

\* swap_tiles(tile_ids_1, tile_ids_2): the right-hand side is read in full
\* (two copies) before the two indexed writes, left target first.
SwapTiles(x, B, S, tile_ids_1, tile_ids_2) ==
    LET n == S * S
        offsets == Offsets(B, n)
        ids_1 == Tensor([b \in 0 .. (B - 1) |-> WrapIndex(tile_ids_1[b] + offsets[b], B * n)])
        ids_2 == Tensor([b \in 0 .. (B - 1) |-> WrapIndex(tile_ids_2[b] + offsets[b], B * n)])
        rows == ToRows(x, B, S)
        from_2 == Tensor(Gather(rows, ids_2))
        from_1 == Tensor(Gather(rows, ids_1))
        first == IndexPut(rows, ids_1, from_2)
        second == IndexPut(first, ids_2, from_1)
    IN  FromRows(second, B, S)

-----------------------------------------------------------------------------------------------------------------------------------------------------
(* The match count: four fixed kernels slid over the board.                *)

RECURSIVE SumTo(_, _)
SumTo(f, n) == IF n = 0 THEN 0 ELSE f[n - 1] + SumTo(f, n - 1)

RECURSIVE SetToSeq(_)
SetToSeq(s) ==
    IF s = {} THEN <<>>
    ELSE LET e == CHOOSE e \in s : TRUE IN <<e>> \o SetToSeq(s \ {e})

\* A kernel of shape [1, 4, KH, KW] given by its weights [c][kh][kw], kept
\* with the list of its non-zero entries: a zero weight adds 0 to a sum.
KernelOf(weight, KH, KW) ==
    [weight |-> Tensor(weight), kh |-> KH, kw |-> KW,
     taps |-> SetToSeq({ t \in Chan \X (0 .. (KH - 1)) \X (0 .. (KW - 1)) :
                           weight[t[1]][t[2]][t[3]] # 0 })]

\* Don't forget that the y-axis is reversed.
HORIZONTAL_CONV ==
    KernelOf([c \in Chan |-> [kh \in 0 .. 1 |-> [kw \in 0 .. 0 |->
        IF c = SOUTH /\ kh = 1 THEN 1 ELSE IF c = NORTH /\ kh = 0 THEN -1 ELSE 0]]], 2, 1)

VERTICAL_CONV ==
    KernelOf([c \in Chan |-> [kh \in 0 .. 0 |-> [kw \in 0 .. 1 |->
        IF c = EAST /\ kw = 0 THEN 1 ELSE IF c = WEST /\ kw = 1 THEN -1 ELSE 0]]], 1, 2)

\* Convs to detect the 0-0 matches.
HORIZONTAL_ZERO_CONV ==
    KernelOf([c \in Chan |-> [kh \in 0 .. 1 |-> [kw \in 0 .. 0 |->
        IF c = SOUTH /\ kh = 1 THEN 1 ELSE IF c = NORTH /\ kh = 0 THEN 1 ELSE 0]]], 2, 1)

VERTICAL_ZERO_CONV ==
    KernelOf([c \in Chan |-> [kh \in 0 .. 0 |-> [kw \in 0 .. 1 |->
        IF c = EAST /\ kw = 0 THEN 1 ELSE IF c = WEST /\ kw = 1 THEN 1 ELSE 0]]], 1, 2)

\* 2^24: a float32 has 24 mantissa bits, so every integer up to this one is a
\* float32 and above it only every 2nd, 4th, ... is.
F32_EXACT == 16777216

RECURSIVE Ulp(_)
Ulp(v) == IF v < F32_EXACT THEN 1 ELSE 2 * Ulp(v \div 2)

\* tensor.float() of a non-negative long: round to nearest, ties to even.
ToFloat(v) ==
    IF v <= F32_EXACT THEN v
    ELSE LET u == Ulp(v)
             q == v \div u
             r == v % u
         IN  IF 2 * r < u THEN q * u
             ELSE IF 2 * r > u THEN (q + 1) * u
             ELSE IF q % 2 = 0 THEN q * u ELSE (q + 1) * u

\* torch.conv2d(x.float(), conv) for one board xb = x[b]: no padding, stride 1.
\* The products and sums are those of floats holding integers; whether a
\* result is 0 does not depend on the rounding of the result.
Conv2d(xb, conv, S) ==
    [h \in 0 .. (S - conv.kh) |->
        [w \in 0 .. (S - conv.kw) |->
            SumTo([i \in 0 .. (Len(conv.taps) - 1) |->
                      LET t == conv.taps[i + 1]
                      IN  ToFloat(xb[t[1]][h + t[2]][w + t[3]]) * conv.weight[t[1]][t[2]][t[3]]],
                  Len(conv.taps))]]

\* (res == 0).float().flatten(start_dim=1).sum(dim=1) for one board.
CountZeros(res) ==
    Cardinality({ hw \in (DOMAIN res) \X (DOMAIN res[0]) : res[hw[1]][hw[2]] = 0 })

\* The `matches` property on the tensor x.
Matches(x, B, S) ==
    [b \in 0 .. (B - 1) |->
          CountZeros(Conv2d(x[b], HORIZONTAL_CONV, S))
        + CountZeros(Conv2d(x[b], VERTICAL_CONV, S))
        - CountZeros(Conv2d(x[b], HORIZONTAL_ZERO_CONV, S))
        - CountZeros(Conv2d(x[b], VERTICAL_ZERO_CONV, S))]

-----
(* The generator.  torch.Generator is a deterministic function of its      *)
(* state: here a linear congruential generator stands for it, one state    *)
(* change per number drawn.                                                *)

RNG_MODULUS == 65537
RNG_MULTIPLIER == 75
RNG_INCREMENT == 74

\* torch.Generator(device).manual_seed(seed)
ManualSeed(seed) == seed % RNG_MODULUS

RngNext(r) == (RNG_MULTIPLIER * r + RNG_INCREMENT) % RNG_MODULUS

RECURSIVE RngAfter(_, _)
RngAfter(r, k) == IF k = 0 THEN r ELSE RngNext(RngAfter(r, k - 1))

\* The k-th number drawn from state r (k >= 1), reduced to [0, n).
Draw(r, k, n) == (RngAfter(r, k) \div 7) % n

\* torch.randperm(n, generator): a Fisher-Yates shuffle of 0..n-1 fed by the
\* generator; it consumes n - 1 numbers.
RECURSIVE Shuffle(_, _, _)
Shuffle(p, i, r) ==
    IF i = 0 THEN p
    ELSE LET j == Draw(r, 1, i + 1)
             q == [k \in DOMAIN p |-> IF k = i THEN p[j] ELSE IF k = j THEN p[i] ELSE p[k]]
         IN  Shuffle(q, i - 1, RngNext(r))

RandPerm(n, r) == Shuffle([k \in 0 .. (n - 1) |-> k], n - 1, r)
RandPermDraws(n) == n - 1

\* torch.randint(low=0, high, size=(count,), generator)
RandInt(high, count, r) == [k \in 0 .. (count - 1) |-> Draw(r, k + 1, high)]

\* ScrambleInstances with the permutation applied the other way round:
\* the tile at position k is sent to position permutations[k].
ScrambleInstancesScatter(x, B, S, r) ==
    LET n == S * S
        tiles == Tensor([b \in 0 .. (B - 1) |->
                    [p \in 0 .. (n - 1) |-> [c \in Chan |-> x[b][c][p \div S][p % S]]]])
        permutations == Tensor([b \in 0 .. (B - 1) |->
                            RandPerm(n, RngAfter(r, b * RandPermDraws(n)))])
        permuted == [b \in 0 .. (B - 1) |->
                        [p \in 0 .. (n - 1) |->
                            tiles[b][CHOOSE q \in 0 .. (n - 1) : permutations[b][q] = p]]]
        r_shifts == RngAfter(r, B * RandPermDraws(n))
        shifts == RandInt(N_SIDES, B * n, r_shifts)
        rows == Tensor([k \in 0 .. (B * n - 1) |-> permuted[k \div n][k % n]])
    IN  [instances |-> FromRows(BatchedRoll(rows, shifts), B, S),
         rng |-> RngAfter(r_shifts, B * n)]

\* ScrambleInstances with one permutation of all the tiles of the batch in
\* place of one permutation per instance.
ScrambleInstancesAcrossBatch(x, B, S, r) ==
    LET n == S * S
        rows == ToRows(x, B, S)
        permutation == RandPerm(B * n, r)
        permuted == Tensor([k \in 0 .. (B * n - 1) |-> rows[permutation[k]]])
        r_shifts == RngAfter(r, B * RandPermDraws(n))
        shifts == RandInt(N_SIDES, B * n, r_shifts)
    IN  [instances |-> FromRows(BatchedRoll(permuted, shifts), B, S),
         rng |-> RngAfter(r_shifts, B * n)]

\* scramble_instances: the new tensor and the new generator state.
ScrambleInstances(x, B, S, r) ==
    LET n == S * S
        \* rearrange "b c h w -> b (h w) c"
        tiles == Tensor([b \in 0 .. (B - 1) |->
                    [p \in 0 .. (n - 1) |-> [c \in Chan |-> x[b][c][p \div S][p % S]]]])
        \* one randperm per instance, in instance order
        permutations == Tensor([b \in 0 .. (B - 1) |->
                            RandPerm(n, RngAfter(r, b * RandPermDraws(n)))])
        permuted == [b \in 0 .. (B - 1) |->
                        [p \in 0 .. (n - 1) |-> tiles[b][permutations[b][p]]]]
        r_shifts == RngAfter(r, B * RandPermDraws(n))
        shifts == RandInt(N_SIDES, B * n, r_shifts)
        \* rearrange "b p c -> (b p) c"
        rows == Tensor([k \in 0 .. (B * n - 1) |-> permuted[k \div n][k % n]])
    IN  [instances |-> FromRows(BatchedRoll(rows, shifts), B, S),
         rng |-> RngAfter(r_shifts, B * n)]

-----------------------------------------------------------------------------
(* The fields computed once by the constructor from self.size.             *)

n_pieces == size * size
max_steps == n_pieces
\* best_matches counting the adjacencies of one direction only.
best_matches_one_direction == size * (size - 1)
best_matches == 2 * size * (size - 1)

\* The value of a true division a / b of integers, kept as a reduced fraction.
RECURSIVE Gcd(_, _)
Gcd(a, b) == IF b = 0 THEN a ELSE Gcd(b, a % b)

Abs(a) == IF a < 0 THEN -a ELSE a

TrueDiv(a, b) ==
    LET g == Gcd(Abs(a), Abs(b))
    IN  [num |-> a \div g, den |-> b \div g]

\* actions[:, k] of an actions tensor [batch_size, 4] (rows are tuples).
Column(actions, k) == [b \in DOMAIN actions |-> actions[b][k + 1]]

Fields == [instances |-> instances, rng |-> rng, step_id |-> step_id,
           truncated |-> truncated, terminated |-> terminated]

Frozen == UNCHANGED <<size, batch_size, n_class>>

\* self.action_space = spaces.MultiDiscrete([n_pieces, n_pieces, 4, 4]): the
\* exclusive upper bound of each position of an action, every lower bound 0.
action_space == <<n_pieces, n_pieces, N_SIDES, N_SIDES>>

\* action in self.action_space
InActionSpace(action) ==
    /\ Len(action) = Len(action_space)
    /\ \A k \in 1 .. Len(action_space) : 0 <= action[k] /\ action[k] < action_space[k]

-----------------------------------------------------------------------------
(* Boards used to construct batches.  A tile is <<N, E, S, W>>; a board is *)
(* given as its tiles in row-major order.                                  *)

BoardOf(tiles, S) ==
    [c \in Chan |-> [h \in 0 .. (S - 1) |-> [w \in 0 .. (S - 1) |->
        tiles[h * S + w + 1][c + 1]]]]

BatchOf(boards) == Tensor([b \in 0 .. (Len(boards) - 1) |-> boards[b + 1]])

\* __init__(batch_instances, device, seed) once its four assertions passed.
Construct(batch_instances, seed) ==
    /\ instances = batch_instances
    /\ rng = [state |-> ManualSeed(seed), drawn |-> 0]
    /\ size = ShapeLast(batch_instances)
    /\ n_class = TensorMax(batch_instances) + 1
    /\ batch_size = Shape0(batch_instances)
    /\ step_id = 0
    /\ truncated = FALSE
    /\ terminated = [b \in 0 .. (Shape0(batch_instances) - 1) |-> FALSE]
    /\ call = [name |-> "init", args |-> <<seed>>]
    /\ ret = <<>>
    /\ pre = [instances |-> batch_instances,
              rng |-> [state |-> ManualSeed(seed), drawn |-> 0],
              step_id |-> 0, truncated |-> FALSE,
              terminated |-> [b \in 0 .. (Shape0(batch_instances) - 1) |-> FALSE]]

\* A field the constructor did not get to create.
NONE == "none"

\* The number of elements of a tensor of the given shape.
RECURSIVE Numel(_)
Numel(shape) == IF shape = <<>> THEN 1 ELSE Head(shape) * Numel(Tail(shape))

\* A tensor handed to the constructor is given by its shape and its elements
\* in row-major order; this is its [b][c][h][w] view when it has four
\* dimensions.
AsBatch(t) ==
    [b \in 0 .. (t.shape[1] - 1) |->
        [c \in 0 .. (t.shape[2] - 1) |->
            [h \in 0 .. (t.shape[3] - 1) |->
                [w \in 0 .. (t.shape[4] - 1) |->
                    t.data[((b * t.shape[2] + c) * t.shape[3] + h) * t.shape[4] + w]]]]]

\* The first of the four assertions of __init__ that fails on t, 0 if none.
FailedAssertion(t) ==
    IF Len(t.shape) # 4 THEN 1
    ELSE IF t.shape[2] # N_SIDES THEN 2
    ELSE IF t.shape[3] # t.shape[4] THEN 3
    ELSE IF \E k \in DOMAIN t.data : t.data[k] < 0 THEN 4
    ELSE 0

\* __init__ stopped by one of its assertions: no field is assigned.
ConstructRejected(t, seed) ==
    /\ instances = NONE /\ rng = NONE /\ size = NONE /\ n_class = NONE
    /\ batch_size = NONE /\ step_id = NONE /\ truncated = NONE /\ terminated = NONE
    /\ call = [name |-> "init", args |-> <<seed, t>>]
    /\ ret = [error |-> "AssertionError"]
    /\ pre = NONE

\* __init__ stopped by self.instances.max() on a tensor without elements:
\* instances, rng and size are assigned, the later fields are not.
ConstructRaisesAtMax(t, seed) ==
    /\ instances = AsBatch(t)
    /\ rng = [state |-> ManualSeed(seed), drawn |-> 0]
    /\ size = t.shape[4]
    /\ n_class = NONE
    /\ batch_size = NONE /\ step_id = NONE /\ truncated = NONE /\ terminated = NONE
    /\ call = [name |-> "init", args |-> <<seed, t>>]
    /\ ret = [error |-> "RuntimeError"]
    /\ pre = NONE

\* __init__(batch_instances, device, seed) on any tensor.
ConstructFrom(t, seed) ==
    IF FailedAssertion(t) # 0 THEN ConstructRejected(t, seed)
    ELSE IF Numel(t.shape) = 0 THEN ConstructRaisesAtMax(t, seed)
    ELSE Construct(AsBatch(t), seed)

-----------------------------------------------------------------------------
(* The public operations.                                                  *)

\* ResetTerminated leaving the flags as they are.
ResetTerminatedKept(B) == terminated

\* torch.zeros(self.batch_size, dtype=torch.bool)
ResetTerminated(B) == [b \in 0 .. (B - 1) |-> FALSE]

\* reset()
Reset ==
    LET scrambled == ScrambleInstances(instances, batch_size, size, rng.state)
        draws == batch_size * RandPermDraws(n_pieces) + batch_size * n_pieces
    IN  /\ instances' = scrambled.instances
        /\ rng' = [state |-> scrambled.rng, drawn |-> rng.drawn + draws]
        /\ step_id' = 0
        /\ truncated' = FALSE
        /\ terminated' = ResetTerminated(batch_size)
        /\ call' = [name |-> "reset", args |-> <<>>]
        /\ ret' = <<>>
        /\ pre' = Fields
        /\ Frozen

\* StepInstances with the swap made before the two rolls.
StepInstancesSwapFirst(x, B, S, actions) ==
    LET swapped == SwapTiles(x, B, S, Column(actions, 0), Column(actions, 2))
        rolled_1 == RollTiles(swapped, B, S, Column(actions, 0), Column(actions, 1))
    IN  RollTiles(rolled_1, B, S, Column(actions, 2), Column(actions, 3))

\* StepInstances with the two shift columns exchanged: each tile is turned
\* by the shift of the other.
StepInstancesShiftsCrossed(x, B, S, actions) ==
    LET rolled_1 == RollTiles(x, B, S, Column(actions, 0), Column(actions, 3))
        rolled_2 == RollTiles(rolled_1, B, S, Column(actions, 2), Column(actions, 1))
    IN  SwapTiles(rolled_2, B, S, Column(actions, 0), Column(actions, 2))

\* StepInstances with the two rolls made as one: both shifts are written
\* into one total_shifts, the second over the first when the ids agree.
StepInstancesOneRoll(x, B, S, actions) ==
    LET n == S * S
        offsets == Offsets(B, n)
        ids_1 == Tensor([b \in 0 .. (B - 1) |-> actions[b][1] + offsets[b]])
        ids_2 == Tensor([b \in 0 .. (B - 1) |-> actions[b][3] + offsets[b]])
        zeros == [k \in 0 .. (B * n - 1) |-> 0]
        total_shifts == IndexPut(IndexPut(zeros, ids_1, Column(actions, 1)),
                                 ids_2, Column(actions, 3))
        rolled == FromRows(BatchedRoll(ToRows(x, B, S), total_shifts), B, S)
    IN  SwapTiles(rolled, B, S, Column(actions, 0), Column(actions, 2))

\* The tensor after the three transformations of step.
StepInstances(x, B, S, actions) ==
    LET tiles_id_1 == Column(actions, 0)
        tiles_id_2 == Column(actions, 2)
        shifts_1 == Column(actions, 1)
        shifts_2 == Column(actions, 3)
        rolled_1 == RollTiles(x, B, S, tiles_id_1, shifts_1)
        rolled_2 == RollTiles(rolled_1, B, S, tiles_id_2, shifts_2)
    IN  SwapTiles(rolled_2, B, S, tiles_id_1, tiles_id_2)

\* StepTerminated with &= in place of |=.
StepTerminatedAnd(term, after, best) ==
    [b \in DOMAIN term |-> term[b] /\ (after[b] = best)]

\* StepTerminated that leaves the flags as they were.
StepTerminatedKept(term, after, best) == term

\* StepTerminated without the previous flags.
StepTerminatedNow(term, after, best) ==
    [b \in DOMAIN term |-> after[b] = best]

\* terminated |= matches == best_matches
StepTerminated(term, after, best) ==
    [b \in DOMAIN term |-> term[b] \/ (after[b] = best)]

\* StepTruncated one step late.
StepTruncatedLate(step, budget) == step > budget

\* self.truncated = self.step_id >= self.max_steps
StepTruncated(step, budget) == step >= budget

\* StepRewards from the final count alone.
StepRewardsFinalCount(before, after, best) ==
    [b \in DOMAIN before |-> TrueDiv(after[b], best)]

\* StepRewards that pays for a change of the count in either direction.
StepRewardsAbsolute(before, after, best) ==
    [b \in DOMAIN before |-> TrueDiv(Abs(after[b] - before[b]), best)]

\* rewards = (self.matches - matches) / self.best_matches
StepRewards(before, after, best) ==
    [b \in DOMAIN before |-> TrueDiv(after[b] - before[b], best)]

\* StepCompletes with an early exit per instance: the board of an instance
\* that is already terminated is left as it is.
StepCompletesSkipsTerminated(actions) ==
    LET matches == Matches(instances, batch_size, size)
        moved == StepInstances(instances, batch_size, size, actions)
        stepped == [b \in 0 .. (batch_size - 1) |->
                       IF terminated[b] THEN instances[b] ELSE moved[b]]
        after == Matches(stepped, batch_size, size)
    IN  /\ step_id' = step_id + 1
        /\ instances' = stepped
        /\ terminated' = StepTerminated(terminated, after, best_matches)
        /\ truncated' = StepTruncated(step_id', max_steps)
        /\ call' = [name |-> "step", args |-> <<actions>>]
        /\ ret' = [rewards |-> StepRewards(matches, after, best_matches),
                   terminated |-> terminated', truncated |-> truncated']
        /\ pre' = Fields
        /\ UNCHANGED rng
        /\ Frozen

\* step(actions) when both roll_tiles calls index inside the flattened batch
\* (swap_tiles then indexes with the same ids).
StepCompletes(actions) ==
    LET matches == Matches(instances, batch_size, size)
        stepped == StepInstances(instances, batch_size, size, actions)
        after == Matches(stepped, batch_size, size)
    IN  /\ step_id' = step_id + 1
        /\ instances' = stepped
        /\ terminated' = StepTerminated(terminated, after, best_matches)
        /\ truncated' = StepTruncated(step_id', max_steps)
        /\ call' = [name |-> "step", args |-> <<actions>>]
        /\ ret' = [rewards |-> StepRewards(matches, after, best_matches),
                   terminated |-> terminated', truncated |-> truncated']
        /\ pre' = Fields
        /\ UNCHANGED rng
        /\ Frozen

\* step(actions) when total_shifts[tile_ids + offsets] = shifts raises
\* IndexError in the first or in the second roll_tiles: step_id is already
\* incremented, a first roll is already made, the flags are not reached.
StepRaises(actions) ==
    /\ step_id' = step_id + 1
    /\ instances' = IF TileIdsIndexable(Column(actions, 0), batch_size, size)
                    THEN RollTiles(instances, batch_size, size,
                                   Column(actions, 0), Column(actions, 1))
                    ELSE instances
    /\ call' = [name |-> "step", args |-> <<actions>>]
    /\ ret' = [error |-> "IndexError"]
    /\ pre' = Fields
    /\ UNCHANGED <<rng, truncated, terminated>>
    /\ Frozen

\* step(actions)
Step(actions) ==
    IF /\ TileIdsIndexable(Column(actions, 0), batch_size, size)
       /\ TileIdsIndexable(Column(actions, 2), batch_size, size)
    THEN StepCompletes(actions)
    ELSE StepRaises(actions)

\* roll_tiles(tile_ids, shifts)
RollTilesCall(tile_ids, shifts) ==
    /\ instances' = RollTiles(instances, batch_size, size, tile_ids, shifts)
    /\ call' = [name |-> "roll_tiles", args |-> <<tile_ids, shifts>>]
    /\ ret' = <<>>
    /\ pre' = Fields
    /\ UNCHANGED <<rng, step_id, truncated, terminated>>
    /\ Frozen

\* swap_tiles(tile_ids_1, tile_ids_2)
SwapTilesCall(tile_ids_1, tile_ids_2) ==
    /\ instances' = SwapTiles(instances, batch_size, size, tile_ids_1, tile_ids_2)
    /\ call' = [name |-> "swap_tiles", args |-> <<tile_ids_1, tile_ids_2>>]
    /\ ret' = <<>>
    /\ pre' = Fields
    /\ UNCHANGED <<rng, step_id, truncated, terminated>>
    /\ Frozen

\* the matches property read by a caller
MatchesCall ==
    /\ call' = [name |-> "matches", args |-> <<>>]
    /\ ret' = Matches(instances, batch_size, size)
    /\ pre' = Fields
    /\ UNCHANGED <<instances, rng, step_id, truncated, terminated>>
    /\ Frozen

\* render(), in its only mode
RenderCall ==
    /\ call' = [name |-> "render", args |-> <<>>]
    /\ ret' = [observation |-> instances]
    /\ pre' = Fields
    /\ UNCHANGED <<instances, rng, step_id, truncated, terminated>>
    /\ Frozen

-----------------------------------------------------------------------------
(* Trainer (src/src/policy_gradient/trainer.py).  Its self.rng is the      *)
(* generator object of the batch: self.rng = self.env.rng.                 *)

\* do_rollouts with a generator of the trainer's own: the batch's generator
\* is not drawn from.
DoRolloutsOwnGenerator ==
    /\ call' = [name |-> "do_rollouts", args |-> <<>>]
    /\ ret' = [error |-> "TypeError"]
    /\ pre' = Fields
    /\ UNCHANGED <<instances, rng, step_id, truncated, terminated>>
    /\ Frozen

\* do_rollouts up to its call of reset: reset_ids = torch.randperm(batch_size,
\* generator=self.rng) draws from the batch's generator; reset(self) takes no
\* argument, so self.env.reset(reset_ids) raises TypeError and nothing else
\* of do_rollouts runs.
DoRollouts ==
    /\ rng' = [state |-> RngAfter(rng.state, RandPermDraws(batch_size)),
               drawn |-> rng.drawn + RandPermDraws(batch_size)]
    /\ call' = [name |-> "do_rollouts", args |-> <<>>]
    /\ ret' = [error |-> "TypeError"]
    /\ pre' = Fields
    /\ UNCHANGED <<instances, step_id, truncated, terminated>>
    /\ Frozen

-----------------------------------------------------------------------------
(* A second batch object.  Its fields are kept in the record `twin`; the   *)
(* batch in the module's variables is the first one.                       *)

NoTwin == <<>>

\* The generator a batch draws from, given its own self.rng and the state of a
\* generator shared with the other batch: taken from the other batch.
GeneratorShared(own, shared) == shared

\* self.rng = torch.Generator(device).manual_seed(seed): a generator of its own.
Generator(own, shared) == own

\* __init__ of the second batch.
TwinConstructed(batch_instances, seed) ==
    [instances |-> batch_instances,
     rng |-> ManualSeed(seed),
     step_id |-> 0,
     truncated |-> FALSE,
     terminated |-> [b \in 0 .. (Shape0(batch_instances) - 1) |-> FALSE],
     ret |-> <<>>]

\* step(actions) of the second batch.
TwinAfterStep(t, actions) ==
    LET matches == Matches(t.instances, batch_size, size)
        stepped == StepInstances(t.instances, batch_size, size, actions)
        after == Matches(stepped, batch_size, size)
        term == StepTerminated(t.terminated, after, best_matches)
        trunc == StepTruncated(t.step_id + 1, max_steps)
    IN  [instances |-> stepped,
         rng |-> t.rng,
         step_id |-> t.step_id + 1,
         truncated |-> trunc,
         terminated |-> term,
         ret |-> [rewards |-> StepRewards(matches, after, best_matches),
                  terminated |-> term, truncated |-> trunc]]

\* reset() of the second batch, called after the first batch's reset left a
\* shared generator in state `shared`.
TwinAfterReset(t, shared) ==
    LET scrambled == ScrambleInstances(t.instances, batch_size, size,
                                       Generator(t.rng, shared))
    IN  [instances |-> scrambled.instances,
         rng |-> scrambled.rng,
         step_id |-> 0,
         truncated |-> FALSE,
         terminated |-> [b \in 0 .. (batch_size - 1) |-> FALSE],
         ret |-> <<>>]

-----------------------------------------------------------------------------
(* The caller's account of an episode: the match counts it started with    *)
(* and the sum of the rewards returned since.                              *)

NoEpisode == <<>>

\* a + b for two fractions
AddFrac(a, b) == TrueDiv(a.num * b.den + b.num * a.den, a.den * b.den)

\* the account at the start of an episode on the tensor x
EpisodeStart(x, B, S) ==
    [first |-> Matches(x, B, S),
     returns |-> [b \in 0 .. (B - 1) |-> TrueDiv(0, 1)],
     solved |-> [b \in 0 .. (B - 1) |-> FALSE]]

\* traces["rewards"].sum(dim=1), one step further
EpisodeEarn(e, rewards) ==
    [e EXCEPT !.returns = [b \in DOMAIN rewards |-> AddFrac(e.returns[b], rewards[b])]]

\* the instances a step of the episode left at `best` matches, one step further
EpisodeSee(e, after, best) ==
    [e EXCEPT !.solved = [b \in DOMAIN after |-> e.solved[b] \/ after[b] = best]]

\* an action of a specification that keeps neither a twin nor an account
Unobserved == UNCHANGED <<twin, episode>>

-----------------------------------------------------------------------------
(* Bounds and input sets.                                                  *)

\* Steps are taken while step_id is below this cap.
MaxStepId == 5
\* Resets are taken while fewer than this many have drawn from the generator.
MaxResets == 1
\* roll_tiles is called with shifts 0 .. MaxShift.
MaxShift == 5
\* Labels of the enumerated boards are 0 .. MaxLabel.
MaxLabel == 2

Seeds == {0}

FULL == <<1, 1, 1, 1>>

\* The legal actions of step on a board of side S: (tile_id_1, shift_1, tile_id_2, shift_2).
ValidActions(S) ==
    (0 .. (S * S - 1)) \X (0 .. (N_SIDES - 1)) \X (0 .. (S * S - 1)) \X (0 .. (N_SIDES - 1))

NOOP == <<0, 0, 0, 0>>

\* The actions the long runs draw from, for each instance independently.
ActionMenu ==
    { NOOP, <<3, 1, 0, 0>> }

\* Batches of two 2x2 boards whose tiles are three FULL tiles and one corner tile.
SpecBatches ==
    { BatchOf(<<BoardOf(<<FULL, FULL, FULL, <<0, 0, 1, 1>>>>, 2),
                BoardOf(<<FULL, <<1, 1, 0, 0>>, FULL, FULL>>, 2)>>),
      BatchOf(<<BoardOf(<<<<2, 2, 2, 2>>, FULL, FULL, <<0, 1, 1, 0>>>>, 2),
                BoardOf(<<FULL, FULL, FULL, FULL>>, 2)>>) }

Init ==
    \E batch \in SpecBatches, seed \in Seeds :
        /\ Construct(batch, seed)
        /\ twin = NoTwin
        /\ episode = EpisodeStart(batch, Shape0(batch), ShapeLast(batch))

SpecStep ==
    /\ step_id < MaxStepId
    /\ \E actions \in [0 .. (batch_size - 1) -> ActionMenu] : Step(actions)
    /\ episode' = EpisodeSee(EpisodeEarn(episode, ret'.rewards),
                             Matches(instances', batch_size, size), best_matches)
    /\ UNCHANGED twin

SpecReset ==
    /\ rng.drawn < MaxResets * (batch_size * RandPermDraws(n_pieces) + batch_size * n_pieces)
    /\ Reset
    /\ episode' = EpisodeStart(instances', batch_size, size)
    /\ UNCHANGED twin

Next == SpecStep \/ SpecReset

Spec == Init /\ [][Next]_vars

-----------------------------------------------------------------------------
(* SpecCalls: each mutating method called once, with every argument in     *)
(* range, on freshly constructed batches of 2x2 and 3x3 boards.            *)

\* 2x2 boards with one label per adjacent pair: solved, and its variants.
SOLVED_2 == <<<<1, 2, 0, 0>>, <<4, 0, 0, 2>>, <<0, 3, 1, 0>>, <<0, 0, 4, 3>>>>
\* tile 0 turned twice: 2 matches left
HALF_2 == <<<<0, 0, 1, 2>>, <<4, 0, 0, 2>>, <<0, 3, 1, 0>>, <<0, 0, 4, 3>>>>
\* no match; turning tile 1 once, tile 2 three times and exchanging them makes 2
NONE_2 == <<<<1, 2, 0, 0>>, <<3, 1, 0, 0>>, <<2, 4, 0, 0>>, <<4, 3, 0, 0>>>>
\* four turns of one corner tile, none in place: four 0-0 pairs
BLANK_2 == <<<<0, 0, 1, 1>>, <<0, 1, 1, 0>>, <<1, 0, 0, 1>>, <<1, 1, 0, 0>>>>

BOARD_3 == <<<<1, 2, 0, 0>>, <<3, 1, 0, 2>>, <<2, 0, 0, 1>>,
             <<3, 3, 1, 0>>, <<1, 2, 3, 3>>, <<0, 0, 2, 2>>,
             <<0, 1, 3, 0>>, <<0, 2, 1, 1>>, <<0, 0, 3, 2>>>>
OTHER_3 == <<<<2, 2, 1, 0>>, <<0, 1, 3, 2>>, <<1, 0, 0, 1>>,
             <<3, 0, 2, 0>>, <<1, 1, 3, 3>>, <<2, 0, 1, 3>>,
             <<0, 3, 3, 0>>, <<2, 2, 1, 3>>, <<2, 0, 0, 2>>>>

CallBatches ==
    { BatchOf(<<BoardOf(NONE_2, 2), BoardOf(HALF_2, 2)>>),
      BatchOf(<<BoardOf(SOLVED_2, 2), BoardOf(BLANK_2, 2)>>),
      BatchOf(<<BoardOf(HALF_2, 2), BoardOf(SOLVED_2, 2), BoardOf(NONE_2, 2)>>),
      BatchOf(<<BoardOf(BOARD_3, 3), BoardOf(OTHER_3, 3)>>) }

\* What the instances other than the one under study are given.
OtherActions == { NOOP, <<1, 1, 2, 3>> }

InitCalls ==
    \E batch \in CallBatches, seed \in Seeds :
        Construct(batch, seed) /\ twin = NoTwin /\ episode = NoEpisode

Fresh == call.name = "init"

CallStep ==
    /\ Fresh
    /\ \E i \in 0 .. (batch_size - 1), a \in ValidActions(size) :
          \E others \in [(0 .. (batch_size - 1)) \ {i} -> OtherActions] :
            Step([b \in 0 .. (batch_size - 1) |-> IF b = i THEN a ELSE others[b]])
    /\ Unobserved

\* The shifts of the instances other than the probed one in a roll_tiles call.
OtherShifts == { 0, 3 }

CallRollTiles ==
    /\ Fresh
    /\ \E tile_ids \in [0 .. (batch_size - 1) -> 0 .. (n_pieces - 1)],
          i \in 0 .. (batch_size - 1), s \in 0 .. MaxShift :
          \E others \in [(0 .. (batch_size - 1)) \ {i} -> OtherShifts] :
            RollTilesCall(tile_ids,
                          [b \in 0 .. (batch_size - 1) |-> IF b = i THEN s ELSE others[b]])
    /\ Unobserved

\* The second tile of the instances other than the probed one in a swap_tiles call.
OtherTiles == { 0, 3 }

CallSwapTiles ==
    /\ Fresh
    /\ \E tile_ids_1 \in [0 .. (batch_size - 1) -> 0 .. (n_pieces - 1)],
          i \in 0 .. (batch_size - 1), t \in 0 .. (n_pieces - 1) :
          \E others \in [(0 .. (batch_size - 1)) \ {i} -> OtherTiles] :
            SwapTilesCall(tile_ids_1,
                          [b \in 0 .. (batch_size - 1) |-> IF b = i THEN t ELSE others[b]])
    /\ Unobserved

NextCalls == CallStep \/ CallRollTiles \/ CallSwapTiles

SpecCalls == InitCalls /\ [][NextCalls]_vars

-----------------------------------------------------------------------------
(* SpecInvalid: one step, on a freshly constructed batch, whose action     *)
(* gives one instance a tile id outside 0 .. n_pieces - 1.                 *)

\* Tile ids are taken up to this far beyond the rows of the flattened batch.
MaxBeyond == 1

\* The ids outside 0 .. n - 1 tried on a batch of B boards of n tiles.
OutOfRangeIds(B, n) ==
    ((0 - B * n - MaxBeyond) .. (0 - 1)) \cup (n .. (B * n - 1 + MaxBeyond))

\* The flat rows an actions tensor addresses in column k, where indexable.
FlatRows(actions, k) ==
    { WrapIndex(actions[b][k + 1] + b * n_pieces, batch_size * n_pieces) :
        b \in 0 .. (batch_size - 1) }

\* No two instances address the same flat row in a column.
NoRepeatedIndex(actions) ==
    /\ Cardinality(FlatRows(actions, 0)) = batch_size
    /\ Cardinality(FlatRows(actions, 2)) = batch_size

CallStepInvalid ==
    /\ Fresh
    /\ \E i \in 0 .. (batch_size - 1), bad \in OutOfRangeIds(batch_size, n_pieces),
          good \in 0 .. (n_pieces - 1), first \in BOOLEAN :
          \E others \in [(0 .. (batch_size - 1)) \ {i} -> OtherActions] :
            LET a == IF first THEN <<bad, 1, good, 2>> ELSE <<good, 1, bad, 2>>
                actions == [b \in 0 .. (batch_size - 1) |-> IF b = i THEN a ELSE others[b]]
            IN  NoRepeatedIndex(actions) /\ Step(actions)
    /\ Unobserved

NextInvalid == CallStepInvalid

SpecInvalid == InitCalls /\ [][NextInvalid]_vars

-----------------------------------------------------------------------------
(* SpecConstruct: the constructor on well-formed and malformed tensors,    *)
(* followed by a reset of the batches it built.                            *)

CandidateShapes ==
    { <<2, 4, 2, 2>>, <<1, 4, 1, 1>>, <<1, 4, 3, 3>>,
      <<2, 4, 2>>, <<4, 2, 2>>, <<1, 4, 2, 2, 1>>,
      <<2, 3, 2, 2>>, <<1, 5, 2, 2>>,
      <<1, 4, 2, 3>>, <<1, 4, 3, 2>>,
      <<0, 4, 2, 2>>, <<2, 4, 0, 0>> }

CandidateLabels == { -1, 0, 2 }

\* Tensors of the candidate shapes: all ones, or all ones but one element.
CandidateTensors ==
    { [shape |-> s, data |-> [k \in 0 .. (Numel(s) - 1) |-> 1]] : s \in CandidateShapes }
    \cup
    UNION { { [shape |-> s, data |-> [k \in 0 .. (Numel(s) - 1) |-> IF k = at THEN v ELSE 1]] :
                at \in 0 .. (Numel(s) - 1), v \in CandidateLabels } : s \in CandidateShapes }

InitConstruct ==
    /\ twin = NoTwin
    /\ episode = NoEpisode
    /\ \E t \in CandidateTensors, seed \in Seeds : ConstructFrom(t, seed)

ConstructedReset ==
    /\ Fresh
    /\ ret = <<>>
    /\ Reset
    /\ Unobserved

NextConstruct == ConstructedReset

SpecConstruct == InitConstruct /\ [][NextConstruct]_vars

-----------------------------------------------------------------------------
(* SpecMatches: the matches property read on freshly constructed batches   *)
(* over enumerated label assignments.                                      *)

\* A 2x2 board from the labels f[1..8] of its eight touching sides and one
\* label bd for its eight border sides.
TouchBoard(f, bd) ==
    BoardOf(<<<<f[1], f[2], bd, bd>>, <<f[3], bd, bd, f[4]>>,
              <<bd, f[5], f[6], bd>>, <<bd, bd, f[7], f[8]>>>>, 2)

Mirror(f) == [i \in 1 .. 8 |-> f[9 - i]]

TILE_A == <<1, 2, 1, 0>>
TILE_B == <<0, 2, 2, 1>>

\* Labels next to the largest integer a float32 still tells from its successor.
BigLabels == {0, F32_EXACT - 1, F32_EXACT, F32_EXACT + 1}

\* Two 2x2 boards over the labels 0 .. MaxLabel, the second the mirror of the first.
TouchBatch(f, bd) ==
    BatchOf(<<TouchBoard(f, bd), TouchBoard(Mirror(f), MaxLabel - bd)>>)

\* Two 3x3 boards of the tiles ts, the second in reverse order.
TileBatch(ts) ==
    BatchOf(<<BoardOf(ts, 3), BoardOf([i \in 1 .. 9 |-> ts[10 - i]], 3)>>)

\* Two 2x2 boards with the labels u and v on one pair of touching sides.
BigBatch(u, v) ==
    BatchOf(<<TouchBoard([i \in 1 .. 8 |-> IF i = 1 THEN u ELSE IF i = 6 THEN v ELSE 1], 0),
              TouchBoard([i \in 1 .. 8 |-> IF i = 2 THEN u ELSE IF i = 4 THEN v ELSE 0], 1)>>)

InitMatches ==
    /\ twin = NoTwin
    /\ episode = NoEpisode
    /\ \E seed \in Seeds :
        \/ \E f \in [1 .. 8 -> 0 .. MaxLabel], bd \in {0, MaxLabel} :
              Construct(TouchBatch(f, bd), seed)
        \/ \E ts \in [1 .. 9 -> {TILE_A, TILE_B}] : Construct(TileBatch(ts), seed)
        \/ \E u \in BigLabels, v \in BigLabels : Construct(BigBatch(u, v), seed)

NextMatches == Fresh /\ MatchesCall /\ Unobserved

SpecMatches == InitMatches /\ [][NextMatches]_vars

-----------------------------------------------------------------------------
(* SpecTwin: two batches constructed from the same instances with the same *)
(* seed and given the same calls, the first batch first.                   *)

\* Steps are taken by the two batches while step_id is below this cap.
MaxTwinSteps == 2

TwinSeeds == {0, 5}

InitTwin ==
    \E batch \in SpecBatches, seed \in TwinSeeds :
        /\ Construct(batch, seed)
        /\ twin = TwinConstructed(batch, seed)
        /\ episode = NoEpisode

TwinStep ==
    /\ step_id < MaxTwinSteps
    /\ \E actions \in [0 .. (batch_size - 1) -> ActionMenu] :
          Step(actions) /\ twin' = TwinAfterStep(twin, actions)
    /\ UNCHANGED episode

TwinReset ==
    /\ rng.drawn < MaxResets * (batch_size * RandPermDraws(n_pieces) + batch_size * n_pieces)
    /\ Reset
    /\ twin' = TwinAfterReset(twin, rng'.state)
    /\ UNCHANGED episode

NextTwin == TwinStep \/ TwinReset

SpecTwin == InitTwin /\ [][NextTwin]_vars

-----------------------------------------------------------------------------
(* SpecConserve: a batch that is stepped and reset, beside a second batch  *)
(* constructed from a copy of the same instances and never called, which   *)
(* keeps the boards of the construction.                                   *)

\* Steps are taken while step_id is below this cap.
MaxConserveSteps == 2

\* What each instance is given: a turn and an exchange, or two turns and an
\* exchange.
ConserveMenu == { <<3, 1, 0, 0>>, <<1, 2, 2, 3>> }

\* A board of four tiles with no rotational symmetry and no mirror image of
\* one another, beside a board of one corner tile in its four turns.
InitConserve ==
    \E batch \in { BatchOf(<<BoardOf(NONE_2, 2), BoardOf(BLANK_2, 2)>>) }, seed \in TwinSeeds :
        /\ Construct(batch, seed)
        /\ twin = TwinConstructed(batch, seed)
        /\ episode = NoEpisode

ConserveStep ==
    /\ step_id < MaxConserveSteps
    /\ \E actions \in [0 .. (batch_size - 1) -> ConserveMenu] : Step(actions)
    /\ Unobserved

\* reset is called once, at any point of the first episode.
ConserveReset ==
    /\ rng.drawn = 0
    /\ Reset
    /\ Unobserved

NextConserve == ConserveStep \/ ConserveReset

SpecConserve == InitConserve /\ [][NextConserve]_vars

-----------------------------------------------------------------------------
(* SpecTrainer: a trainer and its batch.  The trainer calls do_rollouts,   *)
(* and the batch's methods are called in any order between its calls.      *)

\* Steps are taken while step_id is below this cap.
MaxTrainerSteps == 2
\* reset is called while fewer numbers than this were drawn.
MaxDrawn == 2

\* The calls that leave every field as it is; the runs end with them.
Reads == { "matches", "render" }
\* roll_tiles and swap_tiles are called directly on a batch that was not
\* yet stepped since its construction or last reset.
Untouched == step_id = 0 /\ call.name \in { "init", "reset", "do_rollouts" }

InitTrainer ==
    \E batch \in SpecBatches, seed \in Seeds :
        /\ Construct(batch, seed)
        /\ twin = NoTwin
        /\ episode = NoEpisode

\* do_rollouts is called once after a construction, a reset or a step.
TrainerRollouts ==
    /\ call.name \in { "init", "reset", "step" }
    /\ DoRollouts
    /\ Unobserved

TrainerReset == call.name \notin Reads /\ rng.drawn < MaxDrawn /\ Reset /\ Unobserved

TrainerStep ==
    /\ step_id < MaxTrainerSteps
    /\ call.name \notin Reads
    /\ \E a \in ActionMenu : Step([b \in 0 .. (batch_size - 1) |-> a])
    /\ Unobserved

TrainerRollTiles ==
    /\ Untouched
    /\ \E t \in { n_pieces - 1 }, s \in { 1, 2 } :
          RollTilesCall([b \in 0 .. (batch_size - 1) |-> t],
                        [b \in 0 .. (batch_size - 1) |-> s])
    /\ Unobserved

TrainerSwapTiles ==
    /\ Untouched
    /\ \E t \in { 1, n_pieces - 1 } :
          SwapTilesCall([b \in 0 .. (batch_size - 1) |-> 0],
                        [b \in 0 .. (batch_size - 1) |-> t])
    /\ Unobserved

TrainerMatches == call.name \notin Reads /\ MatchesCall /\ Unobserved

TrainerRender == call.name \notin Reads /\ RenderCall /\ Unobserved

NextTrainer ==
    \/ TrainerRollouts
    \/ TrainerReset
    \/ TrainerStep
    \/ TrainerRollTiles
    \/ TrainerSwapTiles
    \/ TrainerMatches
    \/ TrainerRender

SpecTrainer == InitTrainer /\ [][NextTrainer]_vars

-----------------------------------------------------------------------------
(* Properties.                                                             *)

\* The tile at flattened row-major position p of instance b: its N, E, S, W labels.
TileAt(x, b, p) == [c \in Chan |-> x[b][c][p \div size][p % size]]

\* A tile turned by s: the label of side j ends on side (j + s) mod 4.
Turned(tile, s) == [c \in Chan |-> tile[(c - s) % N_SIDES]]

Batch == 0 .. (batch_size - 1)
Positions == 0 .. (n_pieces - 1)

NowMatches == Matches(instances, batch_size, size)
PreMatches == Matches(pre.instances, batch_size, size)

\* C1: after step with t1 # t2, position t2 holds the old tile of t1 turned
\* by s1, position t1 holds the old tile of t2 turned by s2, and every other
\* position of the instance is unchanged.
StepIsRollRollSwap ==
    call.name = "step" =>
        \A b \in Batch :
            LET a == call.args[1][b]
            IN  a[1] # a[3] =>
                /\ TileAt(instances, b, a[3]) = Turned(TileAt(pre.instances, b, a[1]), a[2])
                /\ TileAt(instances, b, a[1]) = Turned(TileAt(pre.instances, b, a[3]), a[4])
                /\ \A p \in Positions \ {a[1], a[3]} :
                       TileAt(instances, b, p) = TileAt(pre.instances, b, p)

\* C1 witness: a step that turned two different tiles by different amounts
\* and exchanged them, in an instance at a position other than the first.
StepIsRollRollSwapWitness ==
    /\ call.name = "step"
    /\ \E b \in Batch \ {0} :
          LET a == call.args[1][b]
          IN  /\ a[1] # a[3] /\ a[2] # 0 /\ a[4] # 0 /\ a[2] # a[4]
              /\ TileAt(instances, b, a[1]) # TileAt(pre.instances, b, a[3])
              /\ TileAt(instances, b, a[3]) # TileAt(pre.instances, b, a[1])
              /\ TileAt(instances, b, a[1]) # TileAt(pre.instances, b, a[1])

\* The number of adjacent pairs of board b whose touching sides are equal and
\* non-zero: SOUTH at row r+1 against NORTH at row r, EAST at column c
\* against WEST at column c+1.
DirectMatches(x, b) ==
      Cardinality({ rc \in (0 .. (size - 2)) \X (0 .. (size - 1)) :
            /\ x[b][SOUTH][rc[1] + 1][rc[2]] = x[b][NORTH][rc[1]][rc[2]]
            /\ x[b][NORTH][rc[1]][rc[2]] # 0 })
    + Cardinality({ rc \in (0 .. (size - 1)) \X (0 .. (size - 2)) :
            /\ x[b][EAST][rc[1]][rc[2]] = x[b][WEST][rc[1]][rc[2] + 1]
            /\ x[b][EAST][rc[1]][rc[2]] # 0 })

\* C2: the matches query equals the direct count of equal non-zero touching
\* sides, for every board with non-negative labels.
MatchesIsDirectCount ==
    call.name = "matches" => \A b \in Batch : ret[b] = DirectMatches(instances, b)

\* C2, for labels a float32 holds exactly (at most 2^24): the matches query
\* equals the direct count.
MatchesIsDirectCountExactLabels ==
    (call.name = "matches" /\ n_class <= F32_EXACT + 1) =>
        \A b \in Batch : ret[b] = DirectMatches(instances, b)

TerminatedIsSticky ==
    call.name = "step" => \A b \in Batch : pre.terminated[b] => terminated[b]

\* C4 witness: a step lowered the count of a terminated instance below
\* best_matches and the flag stayed.
TerminatedIsStickyWitness ==
    /\ call.name = "step"
    /\ \E b \in Batch :
          /\ pre.terminated[b] /\ terminated[b]
          /\ PreMatches[b] = best_matches /\ NowMatches[b] < best_matches

\* C5: truncated is exactly step_id >= size*size, where step_id grows by
\* one at every step and is 0 after a reset.
TruncatedIffBudgetSpent ==
    /\ truncated = (step_id >= size * size)
    /\ call.name = "step" => step_id = pre.step_id + 1
    /\ call.name \in {"init", "reset"} => step_id = 0

\* C5 witness: a step taken by an already truncated batch with a terminated
\* instance.
TruncatedIffBudgetSpentWitness ==
    /\ call.name = "step" /\ step_id > size * size
    /\ pre.truncated /\ truncated
    /\ \E b \in Batch : pre.terminated[b]

\* C6: right after reset, step_id is 0, truncated is false and no instance
\* is terminated.
ResetClears ==
    call.name = "reset" =>
        /\ step_id = 0
        /\ ~truncated
        /\ \A b \in Batch : ~terminated[b]

\* C6 witness: a reset of a truncated batch with a terminated instance.
ResetClearsWitness ==
    /\ call.name = "reset"
    /\ pre.truncated /\ pre.step_id >= size * size
    /\ \E b \in Batch : pre.terminated[b]
    /\ instances # pre.instances

\* C7: roll_tiles changes, in each instance, no tile other than the one
\* addressed.
RollTouchesOnlyAddressed ==
    call.name = "roll_tiles" =>
        \A b \in Batch : \A p \in Positions \ {call.args[1][b]} :
            TileAt(instances, b, p) = TileAt(pre.instances, b, p)

\* C7 witness: a roll that changed a tile in every instance, at different
\* positions in the first two.
RollTouchesOnlyAddressedWitness ==
    /\ call.name = "roll_tiles"
    /\ call.args[1][0] # call.args[1][1]
    /\ \A b \in Batch :
          TileAt(instances, b, call.args[1][b]) # TileAt(pre.instances, b, call.args[1][b])

\* C8: rolling by s and then by 4 - s restores the board, rolling by 0
\* changes nothing, and rolling by s is rolling by s mod 4.
RollInvertibleMod4 ==
    call.name = "roll_tiles" =>
        LET t == call.args[1]
            s == call.args[2]
        IN  /\ RollTiles(instances, batch_size, size, t, [b \in Batch |-> N_SIDES - s[b]])
                   = pre.instances
            /\ \A b \in Batch : s[b] = 0 => instances[b] = pre.instances[b]
            /\ instances = RollTiles(pre.instances, batch_size, size, t,
                                     [b \in Batch |-> s[b] % N_SIDES])

\* C8 witness: a roll by more than 4 in one instance and by 0 in another
\* that changed the first.
RollInvertibleMod4Witness ==
    /\ call.name = "roll_tiles"
    /\ \E b \in Batch : call.args[2][b] > N_SIDES /\ instances[b] # pre.instances[b]
    /\ \E b \in Batch : call.args[2][b] = 0

\* C9: swapping the same two tiles again restores the board, and swapping a
\* tile with itself changes nothing.
SwapIsInvolution ==
    call.name = "swap_tiles" =>
        /\ SwapTiles(instances, batch_size, size, call.args[1], call.args[2]) = pre.instances
        /\ \A b \in Batch :
               call.args[1][b] = call.args[2][b] => instances[b] = pre.instances[b]

\* C9 witness: one call that swapped a tile with itself in one instance and
\* two different tiles in another.
SwapIsInvolutionWitness ==
    /\ call.name = "swap_tiles"
    /\ \E b \in Batch : call.args[1][b] = call.args[2][b]
    /\ \E b \in Batch : call.args[1][b] # call.args[2][b] /\ instances[b] # pre.instances[b]

\* C10: every instance's match count is between 0 and best_matches, and
\* best_matches is 2*size*(size-1).
MatchesWithinBounds ==
    /\ best_matches = 2 * size * (size - 1)
    /\ \A b \in Batch : 0 <= NowMatches[b] /\ NowMatches[b] <= best_matches

\* C10 witness: after a reset, one instance at best_matches and one below.
MatchesWithinBoundsWitness ==
    /\ call.name = "reset"
    /\ \E b \in Batch : NowMatches[b] = best_matches
    /\ \E b \in Batch : NowMatches[b] < best_matches

\* The batch of one instance holding board b as it was before the call, and
\* the actions tensor holding the action of instance b alone.
SoloBefore(b) == [k \in {0} |-> pre.instances[b]]
SoloActions(b) == [k \in {0} |-> call.args[1][b]]
SoloAfter(b) == StepInstances(SoloBefore(b), 1, size, SoloActions(b))

\* C11: after a step with valid actions, the board, match count, reward and
\* terminated flag of every instance are those a batch of that one instance
\* produces from the instance's prior board, prior flag and own action.
StepIsPerInstance ==
    call.name = "step" =>
        LET now == NowMatches
        IN  \A b \in Batch :
                LET solo == SoloAfter(b)
                    before == Matches(SoloBefore(b), 1, size)
                    after == Matches(solo, 1, size)
                IN  /\ instances[b] = solo[0]
                    /\ now[b] = after[0]
                    /\ ret.rewards[b] = StepRewards(before, after, best_matches)[0]
                    /\ terminated[b]
                           = StepTerminated([k \in {0} |-> pre.terminated[b]],
                                            after, best_matches)[0]

\* C11 witness: a step that changed an instance other than the first whose
\* neighbours were given both a no-op and another action on other tiles.
StepIsPerInstanceWitness ==
    /\ call.name = "step" /\ batch_size = 3
    /\ \E b \in Batch \ {0} :
          /\ instances[b] # pre.instances[b]
          /\ NowMatches[b] # PreMatches[b]
          /\ \E j \in Batch \ {b} : call.args[1][j] = NOOP
          /\ \E j \in Batch \ {b} :
                /\ call.args[1][j] # NOOP
                /\ call.args[1][j][1] # call.args[1][b][1]
                /\ instances[j] # pre.instances[j]

Raised == "error" \in DOMAIN ret

\* C13: a step that gives some instance a tile id outside 0 .. n_pieces - 1
\* fails with an indexing error, and never completes having changed a tile
\* of another instance.
OutOfRangeStepFails ==
    (/\ call.name = "step"
     /\ \E b \in Batch : call.args[1][b][1] \notin Positions \/ call.args[1][b][3] \notin Positions)
        => /\ Raised
           /\ ret.error = "IndexError"

\* C13, for ids beyond the rows of the flattened batch: a step that gives an
\* instance b a tile id t with t + b * n_pieces outside
\* -B * n_pieces .. B * n_pieces - 1 fails with IndexError.
BeyondBatchStepFails ==
    (/\ call.name = "step"
     /\ \E b \in Batch : \E k \in {1, 3} :
           LET flat == call.args[1][b][k] + b * n_pieces
           IN  flat < 0 - batch_size * n_pieces \/ flat >= batch_size * n_pieces)
        => /\ Raised
           /\ ret.error = "IndexError"

\* A step given an out-of-range tile id that completed and changed a tile of
\* an instance whose own action was the no-op.
OutOfRangeStepLeaks ==
    /\ call.name = "step" /\ ~Raised
    /\ \E b \in Batch : call.args[1][b] = NOOP /\ instances[b] # pre.instances[b]

\* No field of the batch exists.
NothingCreated ==
    /\ instances = NONE /\ rng = NONE /\ size = NONE /\ n_class = NONE
    /\ batch_size = NONE /\ step_id = NONE /\ truncated = NONE /\ terminated = NONE

\* The fields a successful construction leaves.
AllCreated ==
    /\ step_id = 0 /\ truncated = FALSE
    /\ \A b \in Batch : ~terminated[b]
    /\ size = ShapeLast(instances) /\ batch_size = Shape0(instances)
    /\ \A b \in Batch, c \in Chan, h \in 0 .. (size - 1), w \in 0 .. (size - 1) :
           instances[b][c][h][w] >= 0

\* C14: construction is rejected, before any field is created, exactly when
\* the tensor fails one of the four checks (four dimensions, four channels,
\* square board, no negative label), and succeeds otherwise.
ConstructionValidated ==
    call.name = "init" =>
        /\ Raised => (FailedAssertion(call.args[2]) # 0 /\ NothingCreated)
        /\ ~Raised => AllCreated

\* C14, for tensors that have an element: construction is rejected, before
\* any field is created, exactly when the tensor fails one of the four checks.
ConstructionValidatedNonEmpty ==
    (call.name = "init" /\ (Raised => Numel(call.args[2].shape) > 0)) =>
        /\ Raised => (FailedAssertion(call.args[2]) # 0 /\ NothingCreated)
        /\ ~Raised => AllCreated

\* The permutation reset drew for instance b and the shifts it drew for all
\* tiles, from the generator state it started with: one permutation per
\* instance in instance order, then the shifts.
ResetPermutation(b) ==
    RandPerm(n_pieces, RngAfter(pre.rng.state, b * RandPermDraws(n_pieces)))
ResetShifts ==
    RandInt(N_SIDES, batch_size * n_pieces,
            RngAfter(pre.rng.state, batch_size * RandPermDraws(n_pieces)))

\* C15: after reset, the tile at position k of every instance is the old
\* tile of that instance at position p[k] rolled by r[k], for the permutation
\* p of the positions and the shifts r in 0 .. 3 drawn from the generator.
ResetPermutesAndRolls ==
    call.name = "reset" =>
        \A b \in Batch :
            LET p == ResetPermutation(b)
                r == ResetShifts
            IN  /\ DOMAIN p = Positions
                /\ { p[k] : k \in Positions } = Positions
                /\ \A k \in Positions :
                       /\ r[b * n_pieces + k] \in 0 .. (N_SIDES - 1)
                       /\ TileAt(instances, b, k)
                              = Turned(TileAt(pre.instances, b, p[k]), r[b * n_pieces + k])

\* C15 witness: a reset that moved a tile unlike the others to another
\* position and turned it, with a permutation that is not its own inverse.
ResetPermutesAndRollsWitness ==
    /\ call.name = "reset"
    /\ \E b \in Batch :
          LET p == ResetPermutation(b)
              r == ResetShifts
          IN  /\ \E k \in Positions : p[p[k]] # k
              /\ \E k \in Positions :
                    /\ p[k] # k
                    /\ r[b * n_pieces + k] # 0
                    /\ TileAt(pre.instances, b, p[k]) # TileAt(pre.instances, b, k)
                    /\ TileAt(instances, b, k) # TileAt(pre.instances, b, p[k])

\* A tile that no turn but the full one maps to itself.
NoRotationalSymmetry(tile) == \A s \in 1 .. (N_SIDES - 1) : Turned(tile, s) # tile

\* The actions of instance b for which the two orders are compared.
OrderMatters(b) ==
    LET a == call.args[1][b]
    IN  /\ a[1] # a[3]
        /\ (a[2] % N_SIDES) # (a[4] % N_SIDES)
        /\ NoRotationalSymmetry(TileAt(pre.instances, b, a[1]))
        /\ NoRotationalSymmetry(TileAt(pre.instances, b, a[3]))

\* The board of instance b had the exchange been made before the two turns.
SwappedFirst(b) == StepInstancesSwapFirst(SoloBefore(b), 1, size, SoloActions(b))[0]

\* C16: for two distinct positions, two shifts distinct modulo 4 and two tiles
\* without rotational symmetry, the board step leaves differs from the board
\* obtained by exchanging the positions first and turning afterwards.
StepOrderMatters ==
    (call.name = "step" /\ ~Raised) =>
        \A b \in Batch : OrderMatters(b) => instances[b] # SwappedFirst(b)

\* C16 witness: a step on such an action, where the exchange alone and the
\* turns alone each change the board.
StepOrderMattersWitness ==
    /\ call.name = "step"
    /\ ~Raised
    /\ \E b \in Batch :
          /\ OrderMatters(b)
          /\ call.args[1][b][2] # 0
          /\ call.args[1][b][4] # 0
          /\ instances[b] # pre.instances[b]
          /\ TileAt(pre.instances, b, call.args[1][b][1])
                # TileAt(pre.instances, b, call.args[1][b][3])

\* The side labels present in the batch.
LabelsPresent ==
    { instances[b][c][h][w] : b \in Batch, c \in Chan,
                              h \in 0 .. (size - 1), w \in 0 .. (size - 1) }

\* The labels are within the classes and the largest one is the last class.
LabelsFillClasses ==
    /\ LabelsPresent \subseteq 0 .. (n_class - 1)
    /\ (n_class - 1) \in LabelsPresent

\* C17: in every state all side labels are in 0 .. n_class - 1 and the
\* largest label present is n_class - 1, and no call changes n_class.
LabelsWithinClasses ==
    /\ []LabelsFillClasses
    /\ [][n_class' = n_class]_vars

\* C17 witness: a step after a reset, both having rearranged the labels of a
\* batch that has three classes.
LabelsWithinClassesWitness ==
    /\ call.name = "step"
    /\ rng.drawn > 0
    /\ instances # pre.instances
    /\ n_class = 3
    /\ LabelsPresent = {0, 1, 2}

\* The numbers reset draws: one permutation per instance, one shift per tile.
ResetDraws == batch_size * RandPermDraws(n_pieces) + batch_size * n_pieces

EdgeActions ==
    LET edges == { 0, N_SIDES - 1, N_SIDES, n_pieces - 1, n_pieces }
    IN  edges \X edges \X edges \X edges

\* C20: an action is within the bounds of action_space exactly when it is a
\* legal action of step: a tile id at positions 0 and 2, a shift below 4 at
\* positions 1 and 3.
ActionSpaceIsStepLayout ==
    \A action \in EdgeActions :
        InActionSpace(action) <=> action \in ValidActions(size)

\* The bounds agree with step's layout when a board has as many tiles as a
\* tile has sides.
ActionSpaceIsStepLayoutOnSide2 ==
    size = 2 => ActionSpaceIsStepLayout

\* A step took a legal action that action_space does not contain.
LegalActionOutsideActionSpace ==
    /\ call.name = "step"
    /\ ~Raised
    /\ \E b \in Batch :
          /\ call.args[1][b] \in ValidActions(size)
          /\ ~InActionSpace(call.args[1][b])
          /\ instances[b] # pre.instances[b]

\* C21: a step sets terminated[i] to its old value or-ed with "the count
\* after the action is best_matches"; so terminated[i] is true exactly when
\* some step since the last reset, or since construction, left instance i at
\* best_matches.
TerminatedIffSolvedSinceReset ==
    LET now == NowMatches
    IN  /\ \A b \in Batch : terminated[b] = episode.solved[b]
        /\ call.name = "step" =>
               \A b \in Batch :
                   terminated[b] = (pre.terminated[b] \/ now[b] = best_matches)
        /\ call.name \in { "init", "reset" } => \A b \in Batch : ~terminated[b]

\* C21 witness: after a reset, a step left one instance at best_matches while
\* another instance, terminated by an earlier step, is no longer there.
TerminatedIffSolvedSinceResetWitness ==
    /\ call.name = "step"
    /\ rng.drawn > 0
    /\ \E b \in Batch :
          /\ ~pre.terminated[b] /\ terminated[b] /\ NowMatches[b] = best_matches
    /\ \E b \in Batch :
          /\ pre.terminated[b] /\ terminated[b] /\ NowMatches[b] < best_matches

\* C22 as stated: an instance whose match count is best_matches is terminated.
SolvedIsTerminated ==
    \A b \in Batch : (NowMatches[b] = best_matches) => terminated[b]

\* C22: an instance whose match count is best_matches is terminated unless
\* the batch was just constructed or reset; a batch just constructed or reset
\* has no terminated instance, solved boards included.
SolvedIsTerminatedAfterStep ==
    LET now == NowMatches
    IN  /\ \A b \in Batch :
              (now[b] = best_matches /\ ~terminated[b]) => call.name \in { "init", "reset" }
        /\ call.name \in { "init", "reset" } => \A b \in Batch : ~terminated[b]

\* C22 witness: a reset left an instance solved that a step had terminated,
\* and cleared its flag.
SolvedIsTerminatedAfterStepWitness ==
    /\ call.name = "reset"
    /\ \E b \in Batch :
          pre.terminated[b] /\ ~terminated[b] /\ NowMatches[b] = best_matches

\* C23: step applies the action of an instance that is already terminated
\* as it applies any other; when that takes the instance from best_matches to
\* fewer matches, the flag stays true and the reward of the step is negative.
StepMutatesTerminated ==
    call.name = "step" =>
        LET now == NowMatches
            before == PreMatches
        IN  \A b \in Batch :
                pre.terminated[b] =>
                    /\ instances[b] = SoloAfter(b)[0]
                    /\ terminated[b]
                    /\ (before[b] = best_matches /\ now[b] < best_matches)
                          => ret.rewards[b].num < 0 /\ ret.rewards[b].den > 0

\* C23 witness: a step on a solved, terminated instance broke a match: the
\* instance is terminated with fewer than best_matches matches and the step
\* returned a negative reward.
StepMutatesTerminatedWitness ==
    /\ call.name = "step"
    /\ \E b \in Batch :
          /\ pre.terminated[b]
          /\ PreMatches[b] = best_matches
          /\ instances[b] # pre.instances[b]
          /\ terminated[b]
          /\ NowMatches[b] < best_matches
          /\ ret.rewards[b].num < 0

\* C24: swap_tiles with two different tile ids leaves at each of the two
\* positions the tile that was at the other, its four labels on the sides
\* they were on, and changes no other tile of the instance; an instance is
\* changed by its own two ids only.
SwapExchangesTwoTiles ==
    call.name = "swap_tiles" =>
        \A b \in Batch :
            LET t1 == call.args[1][b]
                t2 == call.args[2][b]
            IN  /\ \A c \in Chan :
                       /\ TileAt(instances, b, t1)[c] = TileAt(pre.instances, b, t2)[c]
                       /\ TileAt(instances, b, t2)[c] = TileAt(pre.instances, b, t1)[c]
                /\ \A p \in Positions \ { t1, t2 } :
                       TileAt(instances, b, p) = TileAt(pre.instances, b, p)

\* C24 witness: a call that exchanged two different tiles without rotational
\* symmetry in one instance, at ids that name two equal tiles or one tile in
\* another instance.
SwapExchangesTwoTilesWitness ==
    /\ call.name = "swap_tiles"
    /\ \E b \in Batch :
          LET t1 == call.args[1][b]
              t2 == call.args[2][b]
          IN  /\ t1 # t2
              /\ NoRotationalSymmetry(TileAt(pre.instances, b, t1))
              /\ NoRotationalSymmetry(TileAt(pre.instances, b, t2))
              /\ \A s \in 0 .. (N_SIDES - 1) :
                     TileAt(pre.instances, b, t1) # Turned(TileAt(pre.instances, b, t2), s)
              /\ instances[b] # pre.instances[b]
              /\ \E o \in Batch \ { b } :
                     /\ call.args[1][o] # t1
                     /\ instances[o] = pre.instances[o]

\* C25: roll_tiles with shift s leaves the label that was on side channel j
\* of the addressed tile on side channel (j + s) mod 4, for every tile,
\* instance and shift; with s = 1 channel 0 goes to 1, 1 to 2, 2 to 3 and
\* 3 to 0.
RollMovesLabelsForward ==
    call.name = "roll_tiles" =>
        \A b \in Batch :
            LET t == call.args[1][b]
                s == call.args[2][b]
                old == TileAt(pre.instances, b, t)
                new == TileAt(instances, b, t)
            IN  /\ \A j \in Chan : new[(j + s) % N_SIDES] = old[j]
                /\ s = 1 => /\ new[1] = old[0] /\ new[2] = old[1]
                            /\ new[3] = old[2] /\ new[0] = old[3]

\* C25 witness: one call that gave a quarter-turn to a tile of four different
\* labels in one instance and three quarter-turns to a tile without
\* rotational symmetry, at another position, in another instance.
RollMovesLabelsForwardWitness ==
    /\ call.name = "roll_tiles"
    /\ \E b \in Batch :
          LET old == TileAt(pre.instances, b, call.args[1][b])
          IN  /\ call.args[2][b] = 1
              /\ Cardinality({ old[j] : j \in Chan }) = N_SIDES
              /\ \E o \in Batch \ { b } :
                     /\ call.args[2][o] = 3
                     /\ call.args[1][o] # call.args[1][b]
                     /\ NoRotationalSymmetry(TileAt(pre.instances, o, call.args[1][o]))

\* The four turns of a tile: the tile up to cyclic rotation of its labels.
Turns(tile) == { Turned(tile, s) : s \in 0 .. (N_SIDES - 1) }

\* How many tiles of board b of the tensor x are turns of the given tile.
CountTurns(x, b, tile) ==
    Cardinality({ p \in Positions : TileAt(x, b, p) \in Turns(tile) })

\* C26: every instance holds, up to cyclic rotation, the tiles it was
\* constructed with, each as many times: none created, destroyed, mirrored or
\* taken from another instance.
TilesConserved ==
    \A b \in Batch :
        /\ \A p \in Positions :
               CountTurns(instances, b, TileAt(instances, b, p))
                   = CountTurns(twin.instances, b, TileAt(instances, b, p))
        /\ \A p \in Positions :
               CountTurns(instances, b, TileAt(twin.instances, b, p))
                   = CountTurns(twin.instances, b, TileAt(twin.instances, b, p))

\* C26 witness: a step after a reset and another step, on boards on which no
\* tile is where, or turned as, the construction put it.
TilesConservedWitness ==
    /\ call.name = "step"
    /\ rng.drawn > 0
    /\ instances[0] # pre.instances[0]
    /\ \A p \in Positions : TileAt(instances, 0, p) # TileAt(twin.instances, 0, p)
    /\ \E p \in Positions : TileAt(instances, 0, p) \notin { TileAt(twin.instances, 0, q) : q \in Positions }

\* C27: a step whose action names one tile twice turns that tile by the sum
\* of the two shifts modulo 4 and changes no other tile; when the sum is a
\* multiple of 4, as in (0, 0, 0, 0), the board is unchanged and the reward
\* is 0.
SameTileIsOneRoll ==
    (call.name = "step" /\ ~Raised) =>
        \A b \in Batch :
            LET a == call.args[1][b]
                s == (a[2] + a[4]) % N_SIDES
            IN  a[1] = a[3] =>
                /\ TileAt(instances, b, a[1]) = Turned(TileAt(pre.instances, b, a[1]), s)
                /\ \A p \in Positions \ { a[1] } :
                       TileAt(instances, b, p) = TileAt(pre.instances, b, p)
                /\ s = 0 => /\ instances[b] = pre.instances[b]
                            /\ ret.rewards[b].num = 0

\* C27 witness: one step in which an instance turned one tile without
\* rotational symmetry by 1 and then by 2 and changed its match count, while
\* another instance was given (0, 0, 0, 0) and kept its board.
SameTileIsOneRollWitness ==
    /\ call.name = "step"
    /\ ~Raised
    /\ \E b \in Batch :
          LET a == call.args[1][b]
          IN  /\ a[1] = a[3] /\ a[2] = 1 /\ a[4] = 2
              /\ NoRotationalSymmetry(TileAt(pre.instances, b, a[1]))
              /\ ret.rewards[b].num # 0
    /\ \E b \in Batch : call.args[1][b] = NOOP /\ instances[b] = pre.instances[b]

\* A step whose two shifts of one tile are not 0 and add up to 4 left the
\* board as it was.
SameTileFullTurn ==
    /\ call.name = "step"
    /\ ~Raised
    /\ \E b \in Batch :
          LET a == call.args[1][b]
          IN  /\ a[1] = a[3] /\ a[2] = 3 /\ a[4] = 1
              /\ NoRotationalSymmetry(TileAt(pre.instances, b, a[1]))
              /\ instances[b] = pre.instances[b]

\* The adjacent pairs of positions of a board: a position and the one below
\* it, a position and the one to its right.
AdjacentPairs ==
    { <<p, p + size>> : p \in { q \in Positions : q + size < n_pieces } }
        \cup { <<p, p + 1>> : p \in { q \in Positions : q % size # size - 1 } }

\* Whether the touching sides of an adjacent pair of board b carry one
\* non-zero label.
PairMatched(x, b, pair) ==
    LET first == TileAt(x, b, pair[1])
        second == TileAt(x, b, pair[2])
    IN  IF pair[2] = pair[1] + 1
        THEN first[EAST] = second[WEST] /\ first[EAST] # 0
        ELSE first[NORTH] = second[SOUTH] /\ first[NORTH] # 0

\* C28: a step leaves every adjacent pair that has no tile at t1 or t2
\* matched iff it was; the match count moves by 8 at most and the reward is
\* at most min(1, 8 / best_matches) in absolute value.
StepChangesNearbyPairsOnly ==
    (call.name = "step" /\ ~Raised) =>
        LET now == NowMatches
            before == PreMatches
        IN  \A b \in Batch :
                LET a == call.args[1][b]
                    far == { pair \in AdjacentPairs :
                                 {pair[1], pair[2]} \cap {a[1], a[3]} = {} }
                    reward == ret.rewards[b]
                IN  /\ \A pair \in far :
                           PairMatched(instances, b, pair) <=> PairMatched(pre.instances, b, pair)
                    /\ Abs(now[b] - before[b]) <= 8
                    /\ reward.den > 0
                    /\ Abs(reward.num) <= reward.den
                    /\ Abs(reward.num) * best_matches <= 8 * reward.den

\* C28 witness: a step on a 3x3 board that changed the count by 3 or more
\* while a matched pair and an unmatched pair away from the two tiles stayed
\* as they were.
StepChangesNearbyPairsOnlyWitness ==
    /\ call.name = "step"
    /\ ~Raised
    /\ size = 3
    /\ \E b \in Batch :
          LET a == call.args[1][b]
              far == { pair \in AdjacentPairs :
                           {pair[1], pair[2]} \cap {a[1], a[3]} = {} }
          IN  /\ a[1] # a[3]
              /\ Abs(NowMatches[b] - PreMatches[b]) >= 3
              /\ \E pair \in far : PairMatched(instances, b, pair)
              /\ \E pair \in far : ~PairMatched(instances, b, pair)

====
